---- MODULE Spec2Model ----
(***************************************************************************)
(* Model of run.py: a fleet of simulated MQTT sensors and actuators.  Each *)
(* agent owns one paho client (whose callbacks run on the client's own     *)
(* network thread, started by loop_start) and runs its loop() on a thread  *)
(* of its own; the __main__ block constructs the roster and then waits for *)
(* a KeyboardInterrupt, which clears the global SIMULATION_ALIVE.          *)
(*                                                                         *)
(* Spec and FairSpec are the fleet; UnitSpec applies the __simulation of   *)
(* one device of each class to its inputs; SeedSpec puts two runs of the   *)
(* threads that draw from the module `random` side by side.                *)
(***************************************************************************)
EXTENDS Integers, Sequences, FiniteSets, TLC

\* ------------------------------------------------------------------ bounds
MaxCommands == 2        \* commands the broker delivers to an actuator that runs alone
MaxFleetCommands == 0   \* commands it delivers to an actuator of a larger fleet
MaxTicks == 2           \* readings a sensor publishes when it is the only sensor
MaxPairTicks == 1       \* readings each sensor of a pair of sensors publishes
MaxLevel == 2           \* largest state / percentage a command of the single device carries
MaxDraws == 2           \* steps that draw random values, per thread of a seeded run

\* --------------------------------------------------------------- constants
main_topic == "mind2"
QOS == 2

\* The agents of the model, named as __main__ names them
\* (f"{sensor}-sensor-temperature", f"{actuator}-actuator-thermostat", ...).
Sensors == { "garage-sensor-temperature", "garden1-sensor-temperature" }
Actuators == { "garage-actuator-thermostat" }
Agents == Sensors \cup Actuators

\* The rosters the model starts from, each in the order __main__ constructs it
\* (sensors, then actuators): one actuator alone, a sensor and an actuator, or
\* two sensors.
Rosters ==
    { << "garage-actuator-thermostat" >>,
      << "garage-sensor-temperature", "garage-actuator-thermostat" >>,
      << "garage-sensor-temperature", "garden1-sensor-temperature" >> }

\* (mutants) every agent uses the root topic; the command topic is self.topic.
Topic_Root(a) == << main_topic >>
CommandTopic_Own(a) == << main_topic, a >>
\* self.topic, and the topic an actuator subscribes to in __on_connect.
Topic(a) == << main_topic, a >>
CommandTopic(a) == << main_topic, a, "toggleState" >>

\* ----------------------------------------------------- correlation tokens
\* A token is a tuple: <<>> is the empty byte string, <<"uuid1", n>> the n-th
\* value of uuid.uuid1(); Absent stands for a PUBLISH without CorrelationData,
\* None for the default of publish's correlation_data parameter.
Absent == << "absent" >>
None == << "None" >>
EmptyToken == << >>
uuid1(n) == << "uuid1", n >>

\* ------------------------------------------------------ command payloads
\* A payload is [ok, rec]: ok is whether json.loads accepts the bytes, rec the
\* record it yields, as a set of <<field, value>> pairs.
Malformed == [ok |-> FALSE, rec |-> {}]
Json(r) == [ok |-> TRUE, rec |-> r]
HasKey(r, k) == \E p \in r : p[1] = k
Get(r, k) == (CHOOSE p \in r : p[1] = k)[2]
Put(r, k, v) == { p \in r : p[1] # k } \cup { << k, v >> }

\* The actuator class of each actuator of the roster.
ActuatorClass(a) == CASE a = "garage-actuator-thermostat" -> "Thermostat"

\* The payloads a command for an actuator of class cls may carry: two complete
\* records, and a record that lacks a key the transform reads.
Complete(cls) ==
    CASE cls = "Thermostat" ->
           << Json({ << "active", TRUE >>, << "state", 5 >> }),
              Json({ << "active", FALSE >>, << "state", 5 >> }) >>
      [] cls = "Shutter" ->
           << Json({ << "active", TRUE >>, << "percentage", 50 >> }),
              Json({ << "active", FALSE >>, << "percentage", 50 >> }) >>
      [] cls = "DoorActuator" -> << Json({ << "open", TRUE >> }), Json({ << "open", FALSE >> }) >>
      [] cls = "FireAlarm" -> << Json({ << "alert", TRUE >> }), Json({ << "alert", FALSE >> }) >>
      [] cls = "LedBulb" -> << Json({ << "on", TRUE >> }), Json({ << "on", FALSE >> }) >>
Lacking(cls) ==
    IF cls \in { "Thermostat", "Shutter" } THEN Json({ << "active", TRUE >> }) ELSE Json({})

\* The commands the broker may deliver: two complete ones with distinct
\* tokens, one with an empty and one without a token, one that is not JSON
\* and one that lacks a key.
Command(token, payload) == [token |-> token, payload |-> payload]
Commands(cls) ==
    { Command(<< "t1" >>, Complete(cls)[1]), Command(<< "t2" >>, Complete(cls)[2]),
      Command(EmptyToken, Complete(cls)[1]), Command(Absent, Complete(cls)[2]),
      Command(<< "t1" >>, Malformed), Command(<< "t2" >>, Lacking(cls)) }

\* DoorActuator / FireAlarm / LedBulb .__simulation: echo one key.
Echo(m, key) == Put({ << key, TRUE >> }, key, Get(m, key))
\* (mutant) the level is echoed whenever the command carries one.
EchoIfActive_KeepsLevel(m, level) ==
    LET out0 == { << "active", TRUE >>, << level, 0 >> }
        out1 == Put(out0, "active", Get(m, "active"))
    IN  IF HasKey(m, level) THEN Put(out1, level, Get(m, level)) ELSE out1

\* Thermostat / Shutter .__simulation: echo active, and the level only if active.
EchoIfActive(m, level) ==
    LET out0 == { << "active", TRUE >>, << level, 0 >> }
        out1 == Put(out0, "active", Get(m, "active"))
    IN  IF Get(out1, "active") THEN Put(out1, level, Get(m, level)) ELSE out1

Simulation(cls, m) ==
    CASE cls = "DoorActuator" -> Echo(m, "open")
      [] cls = "FireAlarm" -> Echo(m, "alert")
      [] cls = "LedBulb" -> Echo(m, "on")
      [] cls = "Thermostat" -> EchoIfActive(m, "state")
      [] cls = "Shutter" -> EchoIfActive(m, "percentage")

\* The keys the transform reads from m, in the order it reads them; a key the
\* record lacks raises KeyError.
ReadsIfActive(m, level) ==
    IF HasKey(m, "active") /\ Get(m, "active") THEN {"active", level} ELSE {"active"}
Reads(cls, m) ==
    CASE cls = "DoorActuator" -> {"open"}
      [] cls = "FireAlarm" -> {"alert"}
      [] cls = "LedBulb" -> {"on"}
      [] cls = "Thermostat" -> ReadsIfActive(m, "state")
      [] cls = "Shutter" -> ReadsIfActive(m, "percentage")
KeyError(cls, m) == \E k \in Reads(cls, m) : ~HasKey(m, k)

\* get_next_random(lower, upper): some two-digit number of [lower, upper].  The
\* model keeps the range the value was drawn from, not the value.
get_next_random(lower, upper) == << "uniform", lower, upper >>

\* The message TemperatureSensor.__simulation builds.
TemperatureReading ==
    { << "temperature", get_next_random(18, 26) >>, << "humidity", get_next_random(40, 90) >>,
      << "battery", get_next_random(89, 92) >>, << "linkquality", get_next_random(50, 255) >> }

\* ------------------------------------------------------------------- state
VARIABLES
    roster,            \* the startup roster (never changes)
    SIMULATION_ALIVE,  \* the global flag every loop reads
    mainPc,            \* position of the __main__ thread
    nextAgent,         \* index in Roster of the agent __main__ constructs next
    calls,             \* per agent: the calls made on its paho client, in order
    conn,              \* per agent: connection state
    brokerQ,           \* per agent: requests sent to the broker, not yet handled
    subscriptions,     \* per agent: the topics the broker holds for it
    loopPc,            \* per agent: position of the thread running loop()
    netPc,             \* per agent: position of the client's network thread
    delivered,         \* per actuator: the commands received, in receipt order
    handled,           \* per actuator: how many of them on_message has taken
    published,         \* per agent: the messages handed to client.publish
    uuidClock,         \* number of uuid.uuid1() values generated so far
    device,            \* single device: the class whose __simulation is exercised
    in_message,        \* single device: the command record given to the transform
    out_message,       \* single device: the record __simulation builds
    slept,             \* single device: the seconds the sensor's tick then sleeps
    rng,               \* seeded runs: per run, how many values `random` has produced
    drawn              \* seeded runs: per run and thread, the values it has drawn

vars == << roster, SIMULATION_ALIVE, mainPc, nextAgent, calls, conn, brokerQ, subscriptions,
           loopPc, netPc, delivered, handled, published, uuidClock,
           device, in_message, out_message, slept, rng, drawn >>

\* The variables of the fleet, of the single device and of the seeded runs.
fleetVars == << roster, SIMULATION_ALIVE, mainPc, nextAgent, calls, conn, brokerQ, subscriptions,
                loopPc, netPc, delivered, handled, published, uuidClock >>
unitVars == << device, in_message, out_message, slept >>
seedVars == << rng, drawn >>
pureVars == << unitVars, seedVars >>

mainVars == << roster, SIMULATION_ALIVE, mainPc, nextAgent >>
brokerVars == << brokerQ, subscriptions >>
messageVars == << delivered, handled >>
publishVars == << published, uuidClock >>

Call(op, arg) == << op, arg >>
NoArg == << >>

\* ------------------------------------------------------------ MQTTClient
\* MQTTClient.__init__: the six callbacks are bound to the base handlers.
CallbackNames ==
    << "on_connect", "on_disconnect", "on_publish", "on_subscribe", "on_unsubscribe",
       "on_message" >>
MQTTClientInit ==
    [ i \in 1..Len(CallbackNames) |-> Call("wire", << CallbackNames[i], "MQTTClient" >>) ]

\* MQTTSensor.__init__ and MQTTActuator.__init__: the calls made on the client.
MQTTSensorInit ==
    MQTTClientInit \o << Call("connect", NoArg), Call("loop_start", NoArg) >>
\* (mutant) on_message is rewired only after connect().
MQTTActuatorInit_WiresLate ==
    MQTTClientInit
        \o << Call("wire", << "on_connect", "MQTTActuator" >>),
              Call("connect", NoArg),
              Call("wire", << "on_message", "MQTTActuator" >>), Call("loop_start", NoArg) >>
MQTTActuatorInit ==
    MQTTClientInit
        \o << Call("wire", << "on_connect", "MQTTActuator" >>),
              Call("wire", << "on_message", "MQTTActuator" >>),
              Call("connect", NoArg), Call("loop_start", NoArg) >>

\* The class whose handler the client currently holds for callback cb.
RECURSIVE LastWired(_, _)
LastWired(log, cb) ==
    IF log = << >> THEN "unset"
    ELSE LET c == log[Len(log)]
         IN  IF c[1] = "wire" /\ c[2][1] = cb THEN c[2][2]
             ELSE LastWired(SubSeq(log, 1, Len(log) - 1), cb)
Handler(a, cb) == LastWired(calls[a], cb)

\* MQTTClient.publish: a falsy correlation_data (None or empty) is replaced by
\* a fresh uuid1; the message goes to self.topic at QoS 2, retain False.
NeedsFreshToken(correlation_data) == correlation_data \in { None, EmptyToken }
\* (mutant) the generated token does not change from one publish to the next.
PublishedToken_Unstamped(correlation_data) ==
    IF NeedsFreshToken(correlation_data) THEN uuid1(0) ELSE correlation_data
PublishedToken(correlation_data) ==
    IF NeedsFreshToken(correlation_data) THEN uuid1(uuidClock + 1) ELSE correlation_data
Message(a, payload, correlation_data, cmd) ==
    [ topic |-> Topic(a), qos |-> QOS, retain |-> FALSE, payload |-> payload,
      token |-> PublishedToken(correlation_data),
      cmd |-> cmd,                    \* history: index of the triggering command
      backlog |-> IF a \in Actuators THEN Len(delivered[a]) - handled[a] ELSE 0,
                                      \* history: commands received and not yet taken
      alive |-> SIMULATION_ALIVE,     \* history: the flag when publish was called
      conn |-> conn[a] ]              \* history: the connection state at that time
Publish(a, payload, correlation_data, cmd) ==
    /\ published' = [published EXCEPT ![a] = Append(@, Message(a, payload, correlation_data, cmd))]
    /\ uuidClock' = IF NeedsFreshToken(correlation_data) THEN uuidClock + 1 ELSE uuidClock
    /\ calls' = [calls EXCEPT ![a] = Append(@, Call("publish", Topic(a)))]

\* A request reaches the broker only over an established connection.
Send(a, req) ==
    brokerQ' = [brokerQ EXCEPT ![a] = IF conn[a] = "Connected" THEN Append(@, req) ELSE @]

\* The process is gone once __main__ has ended and no started loop() thread
\* is left (the network threads are daemons).
ProcessExited ==
    /\ mainPc \in {"done", "aborted"}
    /\ \A a \in Agents : loopPc[a] \in {"unstarted", "terminal"}

\* ------------------------------------------------------------------- Init
\* The value of a variable that the behaviours at hand do not use.
NotUsed == << "not used" >>
UnitIdle == device = NotUsed /\ in_message = NotUsed /\ out_message = NotUsed /\ slept = NotUsed
SeedIdle == rng = NotUsed /\ drawn = NotUsed

Init ==
    /\ UnitIdle
    /\ SeedIdle
    /\ roster \in Rosters
    /\ SIMULATION_ALIVE = TRUE
    /\ mainPc = "construct"
    /\ nextAgent = 1
    /\ calls = [a \in Agents |-> << >>]
    /\ conn = [a \in Agents |-> "Disconnected"]
    /\ brokerQ = [a \in Agents |-> << >>]
    /\ subscriptions = [a \in Agents |-> {}]
    /\ loopPc = [a \in Agents |-> "unstarted"]
    /\ netPc = [a \in Agents |-> "unstarted"]
    /\ delivered = [a \in Actuators |-> << >>]
    /\ handled = [a \in Actuators |-> 0]
    /\ published = [a \in Agents |-> << >>]
    /\ uuidClock = 0

\* --------------------------------------------------------------- __main__
\* The constructor call in threading.Thread(name=name, target=X(name).loop):
\* wiring, connect() and loop_start() of the next agent of the roster.
Construct ==
    /\ mainPc = "construct"
    /\ LET a == roster[nextAgent]
       IN  /\ calls' = [calls EXCEPT ![a] =
                          IF a \in Sensors THEN MQTTSensorInit ELSE MQTTActuatorInit]
           /\ conn' = [conn EXCEPT ![a] = "Connecting"]
           /\ netPc' = [netPc EXCEPT ![a] = "idle"]
    /\ mainPc' = "start"
    /\ UNCHANGED << pureVars, roster, SIMULATION_ALIVE, nextAgent, brokerVars, loopPc, messageVars, publishVars >>

\* Thread(...).start(): the agent's loop() begins on its own thread.
StartThread ==
    /\ mainPc = "start"
    /\ loopPc' = [loopPc EXCEPT ![roster[nextAgent]] = "check"]
    /\ nextAgent' = nextAgent + 1
    /\ mainPc' = IF nextAgent = Len(roster) THEN "wait" ELSE "construct"
    /\ UNCHANGED << pureVars, roster, SIMULATION_ALIVE, calls, conn, brokerVars, netPc, messageVars, publishVars >>

\* (mutant) the wait loop sets the flag again when it finds it cleared.
MainCheck_Rearms ==
    /\ mainPc = "wait"
    /\ mainPc' = "sleep"
    /\ SIMULATION_ALIVE' = TRUE
    /\ UNCHANGED << pureVars, roster, nextAgent, calls, conn, brokerVars, loopPc, netPc,
                    messageVars, publishVars >>

\* while SIMULATION_ALIVE: (line 381), then the final log line.
MainCheck ==
    /\ mainPc = "wait"
    /\ mainPc' = IF SIMULATION_ALIVE THEN "sleep" ELSE "done"
    /\ UNCHANGED << pureVars, roster, SIMULATION_ALIVE, nextAgent, calls, conn, brokerVars, loopPc, netPc,
                    messageVars, publishVars >>

\* time.sleep(.1) inside the try returns.
MainSleep ==
    /\ mainPc = "sleep"
    /\ mainPc' = "wait"
    /\ UNCHANGED << pureVars, roster, SIMULATION_ALIVE, nextAgent, calls, conn, brokerVars, loopPc, netPc,
                    messageVars, publishVars >>

\* A KeyboardInterrupt raised in the main thread.  Only the time.sleep(.1) of
\* the wait loop is inside the try; anywhere else the exception is not caught
\* and ends the main thread with the flag untouched.
InterruptCaught ==
    /\ mainPc = "sleep"
    /\ SIMULATION_ALIVE' = FALSE
    /\ mainPc' = "wait"
    /\ UNCHANGED << pureVars, roster, nextAgent, calls, conn, brokerVars, loopPc, netPc, messageVars, publishVars >>

InterruptUncaught ==
    /\ mainPc \in {"construct", "start", "wait"}
    /\ mainPc' = "aborted"
    /\ UNCHANGED << pureVars, roster, SIMULATION_ALIVE, nextAgent, calls, conn, brokerVars, loopPc, netPc,
                    messageVars, publishVars >>

\* ------------------------------------------------------------- MQTTSensor
\* The number of readings the model lets one sensor publish.
TickBudget ==
    IF \A i \in DOMAIN roster : roster[i] \in Sensors THEN MaxPairTicks ELSE MaxTicks

\* (mutant) the loop goes on as long as it has readings left to publish.
SensorCheck_IgnoresFlag(s) ==
    /\ loopPc[s] = "check"
    /\ SIMULATION_ALIVE => Len(published[s]) < TickBudget
    /\ loopPc' = [loopPc EXCEPT ![s] =
                    IF Len(published[s]) < TickBudget THEN "tick" ELSE "disconnect"]
    /\ UNCHANGED << pureVars, mainVars, calls, conn, brokerVars, netPc, messageVars, publishVars >>

\* MQTTSensor.loop: the test of `while SIMULATION_ALIVE`.
SensorCheck(s) ==
    /\ loopPc[s] = "check"
    /\ SIMULATION_ALIVE => Len(published[s]) < TickBudget
    /\ loopPc' = [loopPc EXCEPT ![s] = IF SIMULATION_ALIVE THEN "tick" ELSE "disconnect"]
    /\ UNCHANGED << pureVars, mainVars, calls, conn, brokerVars, netPc, messageVars, publishVars >>

\* TemperatureSensor.__simulation up to the publish: a reading is drawn and
\* published with no correlation_data.
SensorTick(s) ==
    /\ loopPc[s] = "tick"
    /\ Publish(s, TemperatureReading, None, 0)
    /\ loopPc' = [loopPc EXCEPT ![s] = "sleep"]
    /\ UNCHANGED << pureVars, mainVars, conn, brokerVars, netPc, messageVars >>

\* time.sleep(random.randint(10, 15)) returns.
SensorSleep(s) ==
    /\ loopPc[s] = "sleep"
    /\ loopPc' = [loopPc EXCEPT ![s] = "check"]
    /\ UNCHANGED << pureVars, mainVars, calls, conn, brokerVars, netPc, messageVars, publishVars >>

\* self.client.disconnect() after the loop.
SensorDisconnect(s) ==
    /\ loopPc[s] = "disconnect"
    /\ calls' = [calls EXCEPT ![s] = Append(@, Call("disconnect", NoArg))]
    /\ Send(s, Call("disconnect", NoArg))
    /\ conn' = [conn EXCEPT ![s] = "Disconnecting"]
    /\ loopPc' = [loopPc EXCEPT ![s] = "terminal"]
    /\ UNCHANGED << pureVars, mainVars, subscriptions, netPc, messageVars, publishVars >>

\* ----------------------------------------------------------- MQTTActuator
\* (mutant) the loop never sees the flag cleared.
ActuatorCheck_NeverExits(a) ==
    /\ loopPc[a] = "check"
    /\ loopPc' = [loopPc EXCEPT ![a] = "sleep"]
    /\ UNCHANGED << pureVars, mainVars, calls, conn, brokerVars, netPc, messageVars, publishVars >>

\* MQTTActuator.loop: the test of `while SIMULATION_ALIVE`.
ActuatorCheck(a) ==
    /\ loopPc[a] = "check"
    /\ loopPc' = [loopPc EXCEPT ![a] = IF SIMULATION_ALIVE THEN "sleep" ELSE "unsubscribe"]
    /\ UNCHANGED << pureVars, mainVars, calls, conn, brokerVars, netPc, messageVars, publishVars >>

\* (mutant) the loop publishes a status message each time it wakes up.
ActuatorSleep_Heartbeat(a) ==
    /\ loopPc[a] = "sleep"
    /\ Len(published[a]) < MaxCommands
    /\ Publish(a, { << "active", TRUE >> }, None, 0)
    /\ loopPc' = [loopPc EXCEPT ![a] = "check"]
    /\ UNCHANGED << pureVars, mainVars, conn, brokerVars, netPc, messageVars >>

\* time.sleep(0.1) returns.
ActuatorSleep(a) ==
    /\ loopPc[a] = "sleep"
    /\ loopPc' = [loopPc EXCEPT ![a] = "check"]
    /\ UNCHANGED << pureVars, mainVars, calls, conn, brokerVars, netPc, messageVars, publishVars >>

\* self.client.unsubscribe(self.topic)
UnsubscribeTopic(a) == Topic(a)
ActuatorUnsubscribe(a) ==
    /\ loopPc[a] = "unsubscribe"
    /\ calls' = [calls EXCEPT ![a] = Append(@, Call("unsubscribe", UnsubscribeTopic(a)))]
    /\ Send(a, Call("unsubscribe", UnsubscribeTopic(a)))
    /\ loopPc' = [loopPc EXCEPT ![a] = "disconnect"]
    /\ UNCHANGED << pureVars, mainVars, conn, subscriptions, netPc, messageVars, publishVars >>

\* self.client.disconnect()
ActuatorDisconnect(a) ==
    /\ loopPc[a] = "disconnect"
    /\ calls' = [calls EXCEPT ![a] = Append(@, Call("disconnect", NoArg))]
    /\ Send(a, Call("disconnect", NoArg))
    /\ conn' = [conn EXCEPT ![a] = "Disconnecting"]
    /\ loopPc' = [loopPc EXCEPT ![a] = "terminal"]
    /\ UNCHANGED << pureVars, mainVars, subscriptions, netPc, messageVars, publishVars >>

\* ------------------------------------------------- network-thread callbacks
ResultCodes == { 0, 5 }

\* MQTTClient.subscribe, called from the network thread once connected:
\* self.client.subscribe(topic, qos=2, ...).
SubscribeCall(topic) == << "subscribe", topic, QOS >>
Subscribe(a, topic) ==
    /\ calls' = [calls EXCEPT ![a] = Append(@, SubscribeCall(topic))]
    /\ brokerQ' = [brokerQ EXCEPT ![a] = Append(@, SubscribeCall(topic))]

\* The connected callback: MQTTActuator.__on_connect subscribes on rc == 0,
\* MQTTClient.__on_connect (the sensors' handler) only logs.
OnConnect(a, rc) ==
    /\ netPc[a] = "idle"
    /\ conn[a] = "Connecting"
    /\ ~ProcessExited
    /\ conn' = [conn EXCEPT ![a] = IF rc = 0 THEN "Connected" ELSE "Refused"]
    /\ IF Handler(a, "on_connect") = "MQTTActuator" /\ rc = 0
         THEN Subscribe(a, CommandTopic(a))
         ELSE UNCHANGED << calls, brokerQ >>
    /\ UNCHANGED << pureVars, mainVars, subscriptions, loopPc, netPc, messageVars, publishVars >>

\* The broker handles the oldest request of a client: SUBSCRIBE and
\* UNSUBSCRIBE change the client's subscriptions, DISCONNECT ends its session.
BrokerHandle(a) ==
    /\ brokerQ[a] # << >>
    /\ LET req == Head(brokerQ[a])
       IN  /\ subscriptions' = [subscriptions EXCEPT ![a] =
                 CASE req[1] = "subscribe" -> @ \cup { req[2] }
                   [] req[1] = "unsubscribe" -> @ \ { req[2] }
                   [] req[1] = "disconnect" -> {}]
           /\ conn' = [conn EXCEPT ![a] = IF req[1] = "disconnect" THEN "Disconnected" ELSE @]
    /\ brokerQ' = [brokerQ EXCEPT ![a] = Tail(@)]
    /\ UNCHANGED << pureVars, mainVars, calls, loopPc, netPc, messageVars, publishVars >>

\* The number of commands the model lets the broker deliver to one actuator.
CommandBudget == IF Len(roster) = 1 THEN MaxCommands ELSE MaxFleetCommands

\* The broker forwards a command published on the actuator's command topic,
\* as long as it holds the subscription (until it has handled a DISCONNECT).
Deliver(a, command) ==
    /\ conn[a] \in { "Connected", "Disconnecting" }
    /\ CommandTopic(a) \in subscriptions[a]
    /\ Len(delivered[a]) < CommandBudget
    /\ delivered' = [delivered EXCEPT ![a] = Append(@, command)]
    /\ UNCHANGED << pureVars, mainVars, calls, conn, brokerVars, loopPc, netPc, handled, publishVars >>

\* (mutant) the next command's handler is entered while one is in its delay.
HandlerBegin_Reentrant(a) ==
    /\ netPc[a] \in { "idle", "delay" }
    /\ Handler(a, "on_message") = "MQTTActuator"
    /\ handled[a] < Len(delivered[a])
    /\ ~ProcessExited
    /\ netPc' = [netPc EXCEPT ![a] = "delay"]
    /\ handled' = [handled EXCEPT ![a] = @ + 1]
    /\ UNCHANGED << pureVars, mainVars, calls, conn, brokerVars, loopPc, delivered, publishVars >>

\* MQTTActuator.__on_message is entered for the oldest unhandled command and
\* sleeps random.randint(1, 10)/1000 seconds.
HandlerBegin(a) ==
    /\ netPc[a] = "idle"
    /\ Handler(a, "on_message") = "MQTTActuator"
    /\ handled[a] < Len(delivered[a])
    /\ ~ProcessExited
    /\ netPc' = [netPc EXCEPT ![a] = "delay"]
    /\ handled' = [handled EXCEPT ![a] = @ + 1]
    /\ UNCHANGED << pureVars, mainVars, calls, conn, brokerVars, loopPc, delivered, publishVars >>

\* The exceptions the rest of the handler can raise: json.loads on a payload
\* that is not JSON, the transform on a missing key, and the read of
\* message.properties.CorrelationData when the command has none.
Raises(a, message) ==
    \/ ~message.payload.ok
    \/ KeyError(ActuatorClass(a), message.payload.rec)
    \/ message.token = Absent

\* The handler catches nothing: an exception leaves it into the network
\* thread, which either ends or goes on, as the client library decides.
UncaughtOutcomes == { "dead", "idle" }

\* out_message: the transform's record with battery and linkquality added.
Response(a, message) ==
    Put(Put(Simulation(ActuatorClass(a), message.payload.rec),
            "battery", get_next_random(89, 92)),
        "linkquality", get_next_random(50, 255))

\* message.properties.CorrelationData, as the handler passes it to publish.
ResponseToken_Latest(a, message) == delivered[a][Len(delivered[a])].token
ResponseToken(a, message) == message.token

\* MQTTActuator.__on_message after the delay: parse, transform, publish with
\* the command's CorrelationData.
HandlerEnd(a) ==
    /\ netPc[a] = "delay"
    /\ ~ProcessExited
    /\ LET message == delivered[a][handled[a]]
       IN  IF Raises(a, message)
             THEN /\ \E o \in UncaughtOutcomes : netPc' = [netPc EXCEPT ![a] = o]
                  /\ UNCHANGED << calls, publishVars >>
             ELSE /\ Publish(a, Response(a, message), ResponseToken(a, message), handled[a])
                  /\ netPc' = [netPc EXCEPT ![a] = "idle"]
    /\ UNCHANGED << pureVars, mainVars, conn, brokerVars, loopPc, messageVars >>

\* ------------------------------------------------------------------- Next
Next ==
    \/ Construct
    \/ StartThread
    \/ MainCheck
    \/ MainSleep
    \/ InterruptCaught
    \/ InterruptUncaught
    \/ \E s \in Sensors : SensorCheck(s)
    \/ \E s \in Sensors : SensorTick(s)
    \/ \E s \in Sensors : SensorSleep(s)
    \/ \E s \in Sensors : SensorDisconnect(s)
    \/ \E a \in Actuators : ActuatorCheck(a)
    \/ \E a \in Actuators : ActuatorSleep(a)
    \/ \E a \in Actuators : ActuatorUnsubscribe(a)
    \/ \E a \in Actuators : ActuatorDisconnect(a)
    \/ \E a \in Agents, rc \in ResultCodes : OnConnect(a, rc)
    \/ \E a \in Agents : BrokerHandle(a)
    \/ \E a \in Actuators : \E command \in Commands(ActuatorClass(a)) : Deliver(a, command)
    \/ \E a \in Actuators : HandlerBegin(a)
    \/ \E a \in Actuators : HandlerEnd(a)

Spec == Init /\ [][Next]_vars

\* =========================================================== single device
\* One device of any class, taken alone: its __simulation applied once, to
\* every command record (an actuator) or with every draw (a sensor).
SensorClasses ==
    { "TemperatureSensor", "MotionSensor", "WindowSensor", "DoorSensor", "SmokeDetector" }
ActuatorClasses == { "DoorActuator", "Thermostat", "FireAlarm", "Shutter", "LedBulb" }

\* random.randint(lower, upper): the whole numbers it may return.
randint(lower, upper) == lower..upper

\* (mutant) every sensor class sleeps in the same range.
Interval_Shared(cls) == << 100, 200 >>
\* The arguments of the random.randint whose result a sensor's tick sleeps.
Interval(cls) ==
    CASE cls = "TemperatureSensor" -> << 10, 15 >>
      [] cls = "MotionSensor" -> << 30, 60 >>
      [] cls = "WindowSensor" -> << 100, 200 >>
      [] cls = "DoorSensor" -> << 100, 200 >>
      [] cls = "SmokeDetector" -> << 100, 200 >>

\* decision = [True, False, ...] and decision[random.randint(0, len(decision)-1)].
Decision(cls) ==
    IF cls = "SmokeDetector" THEN [i \in 1..11 |-> i = 1] ELSE [i \in 1..8 |-> i = 1]
Pick(decision) == { decision[i + 1] : i \in randint(0, Len(decision) - 1) }

\* The records a sensor's __simulation may build.
Health ==
    { << "battery", get_next_random(89, 92) >>, << "linkquality", get_next_random(50, 255) >> }
Readings(cls) ==
    CASE cls = "TemperatureSensor" -> { TemperatureReading }
      [] cls \in { "MotionSensor", "SmokeDetector" } ->
           { { << "on", TRUE >>, << "alert", d >> } \cup Health : d \in Pick(Decision(cls)) }
      [] cls \in { "WindowSensor", "DoorSensor" } ->
           { { << "open", d >> } \cup Health : d \in Pick(Decision(cls)) }

\* The key an actuator's transform echoes besides "active", or alone.
LevelKey(cls) == IF cls = "Thermostat" THEN "state" ELSE "percentage"
EchoKey(cls) ==
    CASE cls = "DoorActuator" -> "open" [] cls = "FireAlarm" -> "alert" [] cls = "LedBulb" -> "on"

\* The command records the single actuator is given: every key present with
\* each of its values, or missing.
Fields(key, values) == { {} } \cup { { << key, v >> } : v \in values }
CommandRecords(cls) ==
    IF cls \in { "Thermostat", "Shutter" }
      THEN { a \cup l : a \in Fields("active", BOOLEAN), l \in Fields(LevelKey(cls), 0..MaxLevel) }
      ELSE Fields(EchoKey(cls), BOOLEAN)

\* out_message before __simulation has run; slept holds the seconds slept.
Pending == { << "pending", TRUE >> }
FleetIdle ==
    /\ roster = NotUsed /\ SIMULATION_ALIVE = NotUsed /\ mainPc = NotUsed /\ nextAgent = NotUsed
    /\ calls = NotUsed /\ conn = NotUsed /\ brokerQ = NotUsed /\ subscriptions = NotUsed
    /\ loopPc = NotUsed /\ netPc = NotUsed /\ delivered = NotUsed /\ handled = NotUsed
    /\ published = NotUsed /\ uuidClock = NotUsed

UnitInit ==
    /\ FleetIdle
    /\ SeedIdle
    /\ device \in SensorClasses \cup ActuatorClasses
    /\ in_message \in IF device \in ActuatorClasses THEN CommandRecords(device) ELSE { NotUsed }
    /\ out_message = Pending
    /\ slept = {}

\* self.simulation(in_message) of an actuator: the transform's record, or the
\* KeyError it raises on a key the record lacks.
ActuatorSimulation ==
    /\ device \in ActuatorClasses
    /\ out_message = Pending
    /\ out_message' = IF KeyError(device, in_message) THEN { << "KeyError", TRUE >> }
                      ELSE Simulation(device, in_message)
    /\ UNCHANGED << fleetVars, seedVars, device, in_message, slept >>

\* One tick of a sensor: the reading it builds and publishes, then
\* time.sleep(random.randint(lower, upper)).
SensorSimulation ==
    /\ device \in SensorClasses
    /\ out_message = Pending
    /\ out_message' \in Readings(device)
    /\ \E seconds \in randint(Interval(device)[1], Interval(device)[2]) : slept' = { seconds }
    /\ UNCHANGED << fleetVars, seedVars, device, in_message >>

UnitNext == ActuatorSimulation \/ SensorSimulation
UnitSpec == UnitInit /\ [][UnitNext]_vars

\* ============================================================= seeded runs
\* Two runs of the same fleet, started with the same seed, side by side.  All
\* threads of a run draw from the one generator of the module `random`: the
\* n-th value it produces is a function of the seed and of n, so a value is
\* kept as the call that drew it and the n at which it was drawn.
Runs == { "run1", "run2" }
\* The threads that draw: a sensor's loop() thread and the network thread
\* that runs an actuator's __on_message.
Drawers == { "garage-sensor-temperature", "garage-actuator-thermostat" }

\* The calls to `random` of one tick of TemperatureSensor.__simulation, and of
\* MQTTActuator.__on_message before and after its delay.
TickDraws ==
    << get_next_random(18, 26), get_next_random(40, 90), get_next_random(89, 92),
       get_next_random(50, 255), << "randint", 10, 15 >> >>
DelayDraws == << << "randint", 1, 10 >> >>
ResponseDraws == << get_next_random(89, 92), get_next_random(50, 255) >>

SeedInit ==
    /\ FleetIdle
    /\ UnitIdle
    /\ rng = [r \in Runs |-> 0]
    /\ drawn = [r \in Runs |-> [t \in Drawers |-> << >>]]

\* Thread t of run r makes the calls cs, one after the other.
Draw(r, t, cs) ==
    /\ Len(drawn[r][t]) < MaxDraws
    /\ drawn' = [drawn EXCEPT ![r][t] =
                    Append(@, [i \in 1..Len(cs) |-> << cs[i], rng[r] + i >>])]
    /\ rng' = [rng EXCEPT ![r] = @ + Len(cs)]
    /\ UNCHANGED << fleetVars, unitVars >>

\* One tick of the sensor; the handler up to its delay; the rest of the handler.
SeedSensorTick(r) ==
    /\ r \in Runs
    /\ Draw(r, "garage-sensor-temperature", TickDraws)
SeedHandlerBegin(r) ==
    /\ Len(drawn[r]["garage-actuator-thermostat"]) % 2 = 0
    /\ Draw(r, "garage-actuator-thermostat", DelayDraws)
SeedHandlerEnd(r) ==
    /\ Len(drawn[r]["garage-actuator-thermostat"]) % 2 = 1
    /\ Draw(r, "garage-actuator-thermostat", ResponseDraws)

SeedNext ==
    \/ \E r \in Runs : SeedSensorTick(r)
    \/ \E r \in Runs : SeedHandlerBegin(r)
    \/ \E r \in Runs : SeedHandlerEnd(r)
SeedSpec == SeedInit /\ [][SeedNext]_vars

\* ================================================================== claims
\* The part of a published payload the transform produced.
Body(payload) == { p \in payload : p[1] \notin { "battery", "linkquality" } }
\* The responses an actuator has published, and the command each answers.
ResponseIds(a) == DOMAIN published[a]
CommandOf(a, i) == delivered[a][published[a][i].cmd]

\* C1: every response an actuator publishes carries exactly the correlation
\* token of the command it answers, an empty token included: a response
\* never carries a freshly generated token.
C1_ResponseCarriesCommandToken ==
    \A a \in Actuators : \A i \in ResponseIds(a) :
        published[a][i].token = CommandOf(a, i).token

\* C2: when an actuator has received two or more commands that carry pairwise
\* distinct tokens (and that the handler answers), every response pairs the
\* token of one of them with the transform of that same command's payload,
\* and once all of them are handled the response tokens are exactly the
\* command tokens.
C2_DistinctTokenedCommands(a) ==
    /\ Len(delivered[a]) >= 2
    /\ \A i, j \in DOMAIN delivered[a] : i # j => delivered[a][i].token # delivered[a][j].token
    /\ \A i \in DOMAIN delivered[a] :
          /\ delivered[a][i].token \notin { Absent, EmptyToken }
          /\ delivered[a][i].payload.ok
          /\ ~KeyError(ActuatorClass(a), delivered[a][i].payload.rec)
C2_ResponsesPairTokenWithOwnPayload ==
    \A a \in Actuators :
        C2_DistinctTokenedCommands(a) =>
            /\ \A i \in ResponseIds(a) : \E c \in DOMAIN delivered[a] :
                  /\ published[a][i].token = delivered[a][c].token
                  /\ Body(published[a][i].payload) =
                        Simulation(ActuatorClass(a), delivered[a][c].payload.rec)
            /\ (handled[a] = Len(delivered[a]) /\ netPc[a] = "idle") =>
                  { published[a][i].token : i \in ResponseIds(a) } =
                  { delivered[a][c].token : c \in DOMAIN delivered[a] }

\* C3: a command whose payload is not JSON never stops the network thread
\* that runs the message handler: the thread is still there for the commands
\* that follow.
C3_MalformedPayloadKeepsThreadAlive ==
    \A a \in Actuators :
        netPc[a] = "dead" => delivered[a][handled[a]].payload.ok

\* A state in which C2's case has happened: both commands were answered, and
\* the second was waiting when the first response went out.
C2_Witness ==
    \E a \in Actuators :
        /\ C2_DistinctTokenedCommands(a)
        /\ Len(published[a]) = 2
        /\ published[a][1].backlog >= 1

\* ----------------------------------------------------------------- fairness
\* Every thread that runs an agent's loop() is scheduled again and again, and
\* its sleeps return.
SensorLoop(s) == SensorCheck(s) \/ SensorTick(s) \/ SensorSleep(s) \/ SensorDisconnect(s)
ActuatorLoop(a) ==
    ActuatorCheck(a) \/ ActuatorSleep(a) \/ ActuatorUnsubscribe(a) \/ ActuatorDisconnect(a)
FairSpec ==
    /\ Spec
    /\ \A s \in Sensors : WF_vars(SensorLoop(s))
    /\ \A a \in Actuators : WF_vars(ActuatorLoop(a))

\* C4 (as stated): no message is published once SIMULATION_ALIVE is false.
C4_NoPublishOnceFlagFalse ==
    \A a \in Agents : \A i \in DOMAIN published[a] : published[a][i].alive

\* C4 (amended): once SIMULATION_ALIVE is false no sensor loop enters another
\* tick, so a sensor publishes at most the one reading of the tick whose loop
\* test preceded the flip; and an actuator publishes only from its message
\* handler, never from its loop.
LatePublishes(a) == { i \in DOMAIN published[a] : ~published[a][i].alive }
C4_NoNewTickOnceFlagFalse ==
    [][ /\ \A s \in Sensors :
              /\ (~SIMULATION_ALIVE /\ loopPc[s] # "tick") =>
                    (loopPc'[s] # "tick" /\ published'[s] = published[s])
              /\ Cardinality(LatePublishes(s)) <= 1
        /\ \A a \in Actuators :
              published'[a] # published[a] => (netPc[a] = "delay" /\ loopPc'[a] = loopPc[a])
      ]_vars
\* A sensor has published the reading of the tick in progress after the flip
\* and has then left its loop.
C4_Witness ==
    \E s \in Sensors : LatePublishes(s) # {} /\ loopPc[s] = "terminal"

\* C5: once SIMULATION_ALIVE is false, every agent of the roster eventually
\* reaches its terminal state, and the first loop test an agent makes after
\* the flip takes it out of its loop.
Terminal == \A i \in DOMAIN roster : loopPc[roster[i]] = "terminal"
C5_EveryAgentTerminates ==
    /\ (~SIMULATION_ALIVE) ~> Terminal
    /\ [][ \A a \in Agents :
              (~SIMULATION_ALIVE /\ loopPc[a] = "check" /\ loopPc'[a] # "check") =>
                  loopPc'[a] \in { "unsubscribe", "disconnect" } ]_vars
\* The flag is cleared and a sensor and an actuator have both ended.
C5_Witness == ~SIMULATION_ALIVE /\ Len(roster) = 2 /\ Terminal

\* C6: whenever a KeyboardInterrupt has ended the main thread, the flag has
\* been cleared, so that the fleet shuts down.
C6_InterruptClearsFlag == mainPc = "aborted" => ~SIMULATION_ALIVE

\* C7: an actuator that subscribed on connect and has issued disconnect has
\* issued before it an unsubscribe for the command topic it subscribed to; a
\* sensor that has issued disconnect has issued no unsubscribe at all.
C7_UnsubscribeCommandTopicThenDisconnect ==
    \A a \in Agents : \A i \in DOMAIN calls[a] :
        calls[a][i][1] = "disconnect" =>
            IF a \in Actuators
              THEN (\E k \in 1..(i - 1) : calls[a][k][1] = "subscribe") =>
                      \E j \in 1..(i - 1) :
                          calls[a][j] = Call("unsubscribe", << main_topic, a, "toggleState" >>)
              ELSE \A j \in DOMAIN calls[a] : calls[a][j][1] # "unsubscribe"

\* C8 (as stated): a Connected sensor holds no subscription and a Connected
\* actuator holds exactly its command topic.
C8_ConnectedHoldsExactSubscriptions ==
    \A a \in Agents :
        conn[a] = "Connected" =>
            subscriptions[a] =
                IF a \in Sensors THEN {} ELSE { << main_topic, a, "toggleState" >> }

\* C8 (amended): a Connected sensor holds no subscription; a Connected
\* actuator holds exactly its command topic, or nothing as long as the
\* SUBSCRIBE its connect callback issued has not yet taken effect.
C8_ConnectedHoldsAtMostCommandTopic ==
    \A a \in Agents :
        conn[a] = "Connected" =>
            IF a \in Sensors THEN subscriptions[a] = {}
            ELSE \/ subscriptions[a] = { << main_topic, a, "toggleState" >> }
                 \/ /\ subscriptions[a] = {}
                    /\ \E k \in DOMAIN brokerQ[a] :
                          brokerQ[a][k] = << "subscribe", << main_topic, a, "toggleState" >>, 2 >>
\* A sensor and an actuator are Connected and the actuator's subscription is
\* in place.
C8_Witness ==
    \E s \in Sensors, a \in Actuators :
        /\ conn[s] = "Connected" /\ conn[a] = "Connected"
        /\ subscriptions[a] = { << main_topic, a, "toggleState" >> }

\* C9: SIMULATION_ALIVE is true while the fleet is constructed, only the main
\* thread's interrupt handler changes it (no agent thread or callback moves in
\* that step), and once false it stays false.
C9_FlagClearedOnceByMain ==
    [][ /\ mainPc \in { "construct", "start" } => SIMULATION_ALIVE
        /\ ~SIMULATION_ALIVE => ~SIMULATION_ALIVE'
        /\ SIMULATION_ALIVE' # SIMULATION_ALIVE =>
              /\ mainPc = "sleep" /\ mainPc' = "wait"
              /\ UNCHANGED << calls, conn, brokerVars, loopPc, netPc, messageVars, publishVars >>
      ]_vars
\* The flag was cleared and the main thread has left its wait loop.
C9_Witness == ~SIMULATION_ALIVE /\ mainPc = "done"

\* C10: an agent whose connect was refused issues no subscribe, no connect
\* and no publish from then on.
C10_RefusedAgentIssuesNothing ==
    [][ \A a \in Agents :
          (conn[a] = "Refused" /\ calls'[a] # calls[a]) =>
              calls'[a][Len(calls'[a])][1] \in { "unsubscribe", "disconnect" } ]_vars

\* C11: a sensor publishes only once it is connected: no reading was handed
\* to publish while the sensor's connection was Disconnected or Connecting.
C11_SensorPublishesOnlyConnected ==
    \A s \in Sensors : \A i \in DOMAIN published[s] :
        published[s][i].conn \notin { "Disconnected", "Connecting" }

\* C12: a command whose payload is a well-formed record that lacks a field
\* the transform reads never makes the handler fail: the network thread that
\* runs the handler is never ended by such a command.
C12_MissingFieldKeepsHandlerAlive ==
    \A a \in Actuators :
        netPc[a] = "dead" =>
            LET message == delivered[a][handled[a]]
            IN  ~(message.payload.ok /\ KeyError(ActuatorClass(a), message.payload.rec))

\* C13: for a Thermostat or Shutter command with active=false the response
\* has active=false and state / percentage 0, whatever level the command
\* carries or if it carries none; with active=true the response echoes the
\* command's level unchanged.
C13_InactiveYieldsZeroActiveEchoes ==
    (device \in { "Thermostat", "Shutter" } /\ out_message # Pending
        /\ HasKey(in_message, "active")) =>
        LET level == LevelKey(device)
        IN  IF Get(in_message, "active")
              THEN HasKey(in_message, level) =>
                      out_message = { << "active", TRUE >>, << level, Get(in_message, level) >> }
              ELSE out_message = { << "active", FALSE >>, << level, 0 >> }
\* The Shutter transform has answered an inactive command that carries the
\* largest percentage.
C13_Witness ==
    /\ device = "Shutter"
    /\ in_message = { << "active", FALSE >>, << "percentage", MaxLevel >> }
    /\ out_message # Pending

\* C14: every published message carries a non-empty correlation token, and
\* every sensor publish carries a token generated for that message: no two
\* sensor publishes, of the same or of different sensors, carry the same one.
C14_TokensNonEmptySensorTokensFresh ==
    /\ \A a \in Agents : \A i \in DOMAIN published[a] :
          published[a][i].token \notin { EmptyToken, None, Absent }
    /\ \A s \in Sensors : \A i \in DOMAIN published[s] :
          \E n \in 1..uuidClock : published[s][i].token = uuid1(n)
    /\ \A s1, s2 \in Sensors : \A i \in DOMAIN published[s1] : \A j \in DOMAIN published[s2] :
          (s1 # s2 \/ i # j) => published[s1][i].token # published[s2][j].token
\* Two sensors of one fleet have each published a reading.
C14_Witness ==
    \E s1, s2 \in Sensors : s1 # s2 /\ published[s1] # << >> /\ published[s2] # << >>

\* C15: every publish of an agent goes to its own topic {main_topic}/{name}
\* at QoS 2 with retain false; every subscribe is issued by an actuator, for
\* its own {main_topic}/{name}/toggleState at QoS 2; and no two agents
\* publish on the same topic or hold the same subscription.
C15_OwnTopicsQos2 ==
    /\ \A a \in Agents : \A i \in DOMAIN published[a] :
          /\ published[a][i].topic = << "mind2", a >>
          /\ published[a][i].qos = 2
          /\ published[a][i].retain = FALSE
    /\ \A a \in Agents : \A i \in DOMAIN calls[a] :
          /\ calls[a][i][1] = "publish" => calls[a][i][2] = << "mind2", a >>
          /\ calls[a][i][1] = "subscribe" =>
                /\ a \in Actuators
                /\ calls[a][i] = << "subscribe", << "mind2", a, "toggleState" >>, 2 >>
    /\ \A a, b \in Agents :
          a # b =>
              /\ subscriptions[a] \cap subscriptions[b] = {}
              /\ \A i \in DOMAIN published[a] : \A j \in DOMAIN published[b] :
                    published[a][i].topic # published[b][j].topic
\* Two agents of one fleet have each published on their topics.
C15_Witness ==
    \E a, b \in Agents :
        /\ a # b
        /\ Len(published[a]) >= 1 /\ Len(published[b]) >= 1
        /\ published[a][1].topic # published[b][1].topic

\* The seconds each sensor type may sleep after a publish, as documented.
C16_Seconds(cls) ==
    CASE cls = "TemperatureSensor" -> 10..15
      [] cls = "MotionSensor" -> 30..60
      [] cls \in { "WindowSensor", "DoorSensor", "SmokeDetector" } -> 100..200

\* C16 (as stated): a sensor sleeps after its publish for a whole number of
\* seconds inside its type's range, and no other sensor type has that range.
C16_CadenceRangesAllDiffer ==
    (device \in SensorClasses /\ slept # {}) =>
        /\ slept \subseteq C16_Seconds(device)
        /\ \A c \in SensorClasses \ { device } : Interval(c) # Interval(device)

\* C16 (amended): a sensor sleeps after its publish for a whole number of
\* seconds inside its type's range; the ranges of Temperature, of Motion and
\* of the three other types differ from one another, and Window, Door and
\* Smoke share one range.
C16_CadenceRangesDifferBetweenGroups ==
    (device \in SensorClasses /\ slept # {}) =>
        /\ slept \subseteq C16_Seconds(device)
        /\ \A c \in SensorClasses \ { device } :
              Interval(c) = Interval(device) <=>
                  { c, device } \subseteq { "WindowSensor", "DoorSensor", "SmokeDetector" }
\* A smoke detector has published and slept the longest time it can.
C16_Witness == device = "SmokeDetector" /\ slept = { 200 } /\ out_message # Pending

\* C17: with the same seed, each thread draws the same sequence of values in
\* any two runs of the fleet, however the threads of each run interleave.
C17_SameSeedSameDraws ==
    \A t \in Drawers : \A k \in 1..MaxDraws :
        (k <= Len(drawn["run1"][t]) /\ k <= Len(drawn["run2"][t])) =>
            drawn["run1"][t][k] = drawn["run2"][t][k]

\* How often the client's callback cb was assigned, and whether every such
\* assignment precedes connect() and loop_start().
C18_Wirings(a, cb) ==
    { i \in DOMAIN calls[a] : calls[a][i][1] = "wire" /\ calls[a][i][2][1] = cb }
C18_WiredBeforeConnect(a) ==
    \A i, j \in DOMAIN calls[a] :
        (calls[a][i][1] = "wire" /\ calls[a][j][1] \in { "connect", "loop_start" }) => i < j
C18_Callbacks == { CallbackNames[i] : i \in DOMAIN CallbackNames }

\* C18 (as stated): in the construction of every agent each of the six
\* callbacks is wired exactly once, and all before connect() and loop_start().
C18_EachCallbackWiredOnce ==
    \A a \in Agents :
        calls[a] # << >> =>
            /\ \A cb \in C18_Callbacks : Cardinality(C18_Wirings(a, cb)) = 1
            /\ C18_WiredBeforeConnect(a)

\* C18 (amended): every callback is wired before connect() and loop_start()
\* and none after; a sensor wires each callback once; an actuator wires each
\* once and then wires on_connect and on_message a second time, to its own
\* handlers, which are the ones in place when connect() is issued.
C18_WiredBeforeConnectActuatorRewires ==
    \A a \in Agents :
        calls[a] # << >> =>
            /\ C18_WiredBeforeConnect(a)
            /\ \A cb \in C18_Callbacks :
                  Cardinality(C18_Wirings(a, cb)) =
                      IF a \in Actuators /\ cb \in { "on_connect", "on_message" } THEN 2 ELSE 1
            /\ \A cb \in C18_Callbacks :
                  Handler(a, cb) =
                      IF a \in Actuators /\ cb \in { "on_connect", "on_message" }
                        THEN "MQTTActuator" ELSE "MQTTClient"
\* A sensor and an actuator of one fleet have been constructed and have made
\* further calls on their clients.
C18_Witness ==
    \E s \in Sensors, a \in Actuators :
        /\ Len(calls[s]) > Len(MQTTSensorInit)
        /\ Len(calls[a]) > Len(MQTTActuatorInit)

\* C19: within one actuator the commands are handled one at a time, in the
\* order received: a handler is entered only when none is in progress, for
\* the oldest command not yet taken, and each response answers the command
\* in progress, so responses are published in the order of their commands.
C19_HandledOneAtATimeInOrder ==
    [][ \A a \in Actuators :
          /\ handled'[a] # handled[a] =>
                /\ netPc[a] = "idle" /\ netPc'[a] = "delay"
                /\ handled'[a] = handled[a] + 1
          /\ published'[a] # published[a] =>
                /\ netPc[a] = "delay" /\ netPc'[a] = "idle"
                /\ Len(published'[a]) = Len(published[a]) + 1
                /\ published'[a][Len(published'[a])].cmd = handled[a]
                /\ \A i \in DOMAIN published[a] : published[a][i].cmd < handled[a]
      ]_vars
\* An actuator has answered its first and its second command, in that order,
\* the second having arrived before the first was answered.
C19_Witness ==
    \E a \in Actuators :
        /\ Len(published[a]) = 2
        /\ published[a][1].cmd = 1 /\ published[a][2].cmd = 2
        /\ published[a][1].backlog = 1

\* C20: an actuator publishes at most one response per delivered command and
\* nothing that no delivered command triggered: every response answers a
\* command of its own that the handler has taken, so the responses are never
\* more than the commands delivered, and the call log of the client shows as
\* many publishes as there are responses.
C20_AtMostOneResponsePerCommand ==
    \A a \in Actuators :
        /\ \A i \in DOMAIN published[a] : published[a][i].cmd \in 1..handled[a]
        /\ \A i, j \in DOMAIN published[a] :
              i # j => published[a][i].cmd # published[a][j].cmd
        /\ Len(published[a]) <= handled[a]
        /\ handled[a] <= Len(delivered[a])
        /\ Cardinality({ i \in DOMAIN calls[a] : calls[a][i][1] = "publish" }) = Len(published[a])
\* An actuator has ended its loop and disconnected after two commands, of
\* which it answered one.
C20_Witness ==
    \E a \in Actuators :
        /\ Len(delivered[a]) = 2 /\ handled[a] = 2 /\ Len(published[a]) = 1
        /\ loopPc[a] = "terminal"

====
